---- MODULE Spec2Model ----
(***************************************************************************)
(* A model of the stateful parts of facile.js:                             *)
(*                                                                         *)
(*   - State (src/src/state.ts): a watched value with change listeners;    *)
(*   - Time  (src/unnamed/part_005): the registry of timers started with   *)
(*     doEvery() / doAfter() and cancelled with stop();                    *)
(*   - DOM   (src/src/dom.ts): addElement(), clear(), writeText() and      *)
(*     writeHTML() on one element of the page, and its child nodes;        *)
(*   - Media (src/src/media.ts): playSound() and the audio elements it     *)
(*     keeps per file.                                                     *)
(*                                                                         *)
(* JavaScript runs one call at a time: a top-level call is taken only when *)
(* no setter dispatch and no timer callback is in progress.  A listener or *)
(* a timer callback is user code: what it does (return, throw, set the     *)
(* value) is chosen by the environment, one step at a time.                *)
(***************************************************************************)
EXTENDS Integers, Sequences, FiniteSets, TLC

VARIABLES
  value,         \* State._value
  callbacks,     \* State._callbacks: listeners, in onChange() order
  stack,         \* the activations of the setter that have not returned yet
  calls,         \* listener invocations made since the last top-level set began
  reports,       \* console.error / console.warn calls made by the setter
                 \* since the last top-level set, of either State, began
  lastCall,      \* the last top-level call made on the State
  tally,         \* per registration, the invocations made and the changing
                 \* sets made since it, in the executions that count them
  other,         \* a second State, with its own value and listeners
  activeTimers,  \* Time.activeTimers: the registry
  host,          \* the host's timers: host[h] is the timer with handle h
  running,       \* handle of the timer whose callback is executing, 0 if none
  lastOp,        \* the last call made on the Time module, or the last firing
  firing,        \* what the executing callback found, and what the last
                 \* callback created and stopped
  childNodes,    \* the child nodes of the element of the page that the
                 \* functions of the DOM module are called with
  nodes,         \* the number of elements created with createElement
  lastAdd,       \* the last call made on the DOM module
  audioSources,  \* Media.audioSources: per file, the audio elements created
  lastPlay       \* the last call of playSound

stateVars ==
  <<value, callbacks, stack, calls, reports, lastCall, tally, other>>
timerVars == <<activeTimers, host, running, lastOp, firing>>
domVars == <<childNodes, nodes, lastAdd>>
mediaVars == <<audioSources, lastPlay>>
vars == <<value, callbacks, stack, calls, reports, lastCall, tally, other,
          activeTimers, host, running, lastOp, firing,
          childNodes, nodes, lastAdd, audioSources, lastPlay>>

\* What an operation of one module leaves alone.
besideState == <<other, timerVars, domVars, mediaVars>>
besideTime == <<stateVars, domVars, mediaVars>>
besideDom == <<stateVars, timerVars, mediaVars>>
besideMedia == <<stateVars, timerVars, domVars>>

(***************************************************************************)
(* Bounds of the model.                                                    *)
(***************************************************************************)
MaxListeners == 3
MaxTimers == 3
MaxNested == 2
MaxChildren == 5
MaxNodes == 6
MaxAudio == 3
MaxSets == 3
MaxOthers == 1

(***************************************************************************)
(* JavaScript values held by a State.  NaN and the two zeros are the       *)
(* values on which strict equality and identity differ.                    *)
(***************************************************************************)
Undefined == "undefined"
NaNValue == "NaN"
PosZero == "+0"
NegZero == "-0"
Values == {Undefined, NaNValue, PosZero, NegZero, "1"}

Listeners == {"L1", "L2"}

\* a === b (state.ts:42): NaN differs from itself, +0 and -0 are equal.
StrictEquals(a, b) ==
  /\ a # NaNValue
  /\ b # NaNValue
  /\ \/ a = b
     \/ {a, b} = {PosZero, NegZero}

Last(s) == s[Len(s)]
Front(s) == SubSeq(s, 1, Len(s) - 1)

\* The activation of the setter that is executing.
Top == Last(stack)

SetTop(frame) == [stack EXCEPT ![Len(stack)] = frame]

(***************************************************************************)
(* State (src/src/state.ts)                                                *)
(***************************************************************************)

\* The counts of an execution that keeps none, and of one that begins to
\* count.
NoTally == [on |-> FALSE, sets |-> 0, due |-> <<>>, invoked |-> <<>>]
NewTally == [on |-> TRUE, sets |-> 0, due |-> <<>>, invoked |-> <<>>]

\* One more for every element of a sequence of counts.
Each(counts) == [i \in DOMAIN counts |-> counts[i] + 1]

\* The counts after a registration (state.ts:64), after a set of a value
\* that differs (!==) from the held one (state.ts:42), and after the
\* invocation of the listener at a position (state.ts:50).
Registered(counts) ==
  IF counts.on
    THEN [counts EXCEPT !.due = Append(@, 0), !.invoked = Append(@, 0)]
    ELSE counts
Changed(counts, held, state) ==
  IF counts.on /\ ~StrictEquals(held, state)
    THEN [counts EXCEPT !.sets = @ + 1, !.due = Each(@)]
    ELSE counts
Invoked(counts, index) ==
  IF counts.on THEN [counts EXCEPT !.invoked[index] = @ + 1] ELSE counts

\* A setter that never takes its early return.
NeverCancels(state) == FALSE

\* The early return of the setter (state.ts:42): this._value === state.
Cancels(state) == StrictEquals(value, state)

\* An activation that captures previous after the assignment.
NewFrameLate(state) ==
  [state |-> state, previous |-> state, index |-> 1, busy |-> FALSE,
   call |-> 0, first |-> Len(calls) + 1, found |-> Len(callbacks)]

\* The activation that the setter starts once past its early return
\* (state.ts:46-48): previous is captured, the iterator is on the first
\* listener.  call is the position, in calls, of the invocation that the
\* activation is waiting for, first the position of the first invocation
\* it makes, found the number of listeners registered when it starts.
NewFrame(state) ==
  [state |-> state, previous |-> value, index |-> 1, busy |-> FALSE,
   call |-> 0, first |-> Len(calls) + 1, found |-> Len(callbacks)]

\* state.value = next, called from top-level code.  The dispatch loop it
\* starts runs in the steps InvokeListener .. SetReturns, and no other
\* top-level call is taken before SetReturns.
SetValue(state) ==
  /\ stack = <<>>
  /\ tally.sets < MaxSets
  /\ tally' = Changed(tally, value, state)
  /\ calls' = <<>>
  /\ reports' = 0
  /\ IF Cancels(state)
       THEN /\ lastCall' = [op |-> "set", arg |-> state, before |-> value,
                            prior |-> lastCall.arg, completion |-> "normal",
                            read |-> Undefined, nested |-> 0]
            /\ UNCHANGED <<value, stack>>
       ELSE /\ value' = state
            /\ stack' = <<[NewFrame(state) EXCEPT !.first = 1]>>
            /\ lastCall' = [op |-> "set", arg |-> state, before |-> value,
                            prior |-> lastCall.arg, completion |-> "pending",
                            read |-> Undefined, nested |-> 0]
  /\ UNCHANGED callbacks
  /\ UNCHANGED besideState

\* A loop that passes the setter's argument: listener(state, previous).
InvokeListenerWithArgument ==
  /\ stack # <<>>
  /\ ~Top.busy
  /\ Top.index <= Len(callbacks)
  /\ calls' = Append(calls, [listener |-> callbacks[Top.index],
                             value |-> Top.state,
                             previous |-> Top.previous,
                             depth |-> Len(stack),
                             length |-> Len(callbacks),
                             outcome |-> "running"])
  /\ stack' = SetTop([Top EXCEPT !.busy = TRUE, !.call = Len(calls) + 1])
  /\ tally' = Invoked(tally, Top.index)
  /\ UNCHANGED <<value, callbacks, reports, lastCall>>
  /\ UNCHANGED besideState

\* The loop of the setter reaches a listener and calls it with the held
\* value and the captured previous value (state.ts:48-50).  The array is
\* iterated live: the iterator compares its index with the current length,
\* which the invocation records as length.
InvokeListener ==
  /\ stack # <<>>
  /\ ~Top.busy
  /\ Top.index <= Len(callbacks)
  /\ calls' = Append(calls, [listener |-> callbacks[Top.index],
                             value |-> value,
                             previous |-> Top.previous,
                             depth |-> Len(stack),
                             length |-> Len(callbacks),
                             outcome |-> "running"])
  /\ stack' = SetTop([Top EXCEPT !.busy = TRUE, !.call = Len(calls) + 1])
  /\ tally' = Invoked(tally, Top.index)
  /\ UNCHANGED <<value, callbacks, reports, lastCall>>
  /\ UNCHANGED besideState

\* The listener that is executing is the one the innermost activation is
\* waiting for.
Finish(outcome) == [calls EXCEPT ![Top.call].outcome = outcome]

\* The listener returns: the loop moves to the next listener.
ListenerReturns ==
  /\ stack # <<>>
  /\ Top.busy
  /\ calls' = Finish("returned")
  /\ stack' = SetTop([Top EXCEPT !.busy = FALSE, !.index = @ + 1])
  /\ UNCHANGED <<value, callbacks, reports, lastCall, tally>>
  /\ UNCHANGED besideState

\* A catch clause that reports nothing.
ListenerThrowsSilently ==
  /\ stack # <<>>
  /\ Top.busy
  /\ calls' = Finish("threw")
  /\ stack' = SetTop([Top EXCEPT !.busy = FALSE, !.index = @ + 1])
  /\ UNCHANGED <<value, callbacks, reports, lastCall, tally>>
  /\ UNCHANGED besideState

\* A setter without the try/catch: the error leaves the loop and the setter.
ListenerThrowsUncaught ==
  /\ stack # <<>>
  /\ Top.busy
  /\ calls' = Finish("threw")
  /\ stack' = Front(stack)
  /\ lastCall' = [lastCall EXCEPT !.completion = "throw"]
  /\ UNCHANGED <<value, callbacks, reports, tally>>
  /\ UNCHANGED besideState

\* The listener throws: the catch clause reports the error and a warning
\* (state.ts:52-55), and the loop moves to the next listener.
ListenerThrows ==
  /\ stack # <<>>
  /\ Top.busy
  /\ calls' = Finish("threw")
  /\ reports' = reports + 2
  /\ stack' = SetTop([Top EXCEPT !.busy = FALSE, !.index = @ + 1])
  /\ UNCHANGED <<value, callbacks, lastCall, tally>>
  /\ UNCHANGED besideState

\* The loop is past the last listener: the setter returns (state.ts:56-57).
SetReturns ==
  /\ stack # <<>>
  /\ ~Top.busy
  /\ Top.index > Len(callbacks)
  /\ stack' = Front(stack)
  /\ lastCall' = IF Len(stack) = 1
                   THEN [lastCall EXCEPT !.completion = "normal"]
                   ELSE lastCall
  /\ UNCHANGED <<value, callbacks, calls, reports, tally>>
  /\ UNCHANGED besideState

\* An onChange that calls the callback it registers.
OnChangeInvoking(callback) ==
  /\ stack = <<>>
  /\ Len(callbacks) < MaxListeners
  /\ callbacks' = Append(callbacks, callback)
  /\ tally' = Invoked(Registered(tally), Len(callbacks) + 1)
  /\ lastCall' = [lastCall EXCEPT !.op = "onChange", !.completion = "normal",
                                  !.read = Undefined]
  /\ UNCHANGED <<value, stack, calls, reports>>
  /\ UNCHANGED besideState

\* onChange(callback), called from top-level code (state.ts:63-65).
OnChange(callback) ==
  /\ stack = <<>>
  /\ Len(callbacks) < MaxListeners
  /\ callbacks' = Append(callbacks, callback)
  /\ tally' = Registered(tally)
  /\ lastCall' = [lastCall EXCEPT !.op = "onChange", !.completion = "normal",
                                  !.read = Undefined]
  /\ UNCHANGED <<value, stack, calls, reports>>
  /\ UNCHANGED besideState

\* The State was created without a value and nothing was called on it.
NoCall ==
  [op |-> "state", arg |-> Undefined, before |-> Undefined,
   prior |-> Undefined, completion |-> "normal", read |-> Undefined,
   nested |-> 0]

\* A constructor that forgets its argument.
ConstructedEmpty(state) == Undefined

\* The value held after new State(state) (state.ts:26-28); state(value)
\* passes its argument on (state.ts:83-85), undefined when it is omitted.
Constructed(state) == state

\* Reading state.value from top-level code (state.ts:33-35): the getter
\* returns this._value.
GetValue ==
  /\ stack = <<>>
  /\ lastCall' = [lastCall EXCEPT !.op = "get", !.completion = "normal",
                                  !.read = value]
  /\ UNCHANGED <<value, callbacks, stack, calls, reports, tally>>
  /\ UNCHANGED besideState

\* state.value = next, called by the listener that is executing: the
\* setter runs inside the dispatch that invoked the listener
\* (state.ts:40-57), with its own previous and its own iterator.
ListenerSets(state) ==
  /\ stack # <<>>
  /\ Top.busy
  /\ lastCall.nested < MaxNested
  /\ lastCall' = [lastCall EXCEPT !.nested = @ + 1]
  /\ tally' = Changed(tally, value, state)
  /\ IF Cancels(state)
       THEN UNCHANGED <<value, stack>>
       ELSE /\ value' = state
            /\ stack' = Append(stack, NewFrame(state))
  /\ UNCHANGED <<callbacks, calls, reports>>
  /\ UNCHANGED besideState

\* An onChange that puts the callback in front of the list (unshift).
ListenerRegistersFirst(callback) ==
  /\ stack # <<>>
  /\ Top.busy
  /\ Len(callbacks) < MaxListeners
  /\ callbacks' = <<callback>> \o callbacks
  /\ tally' = Registered(tally)
  /\ UNCHANGED <<value, stack, calls, reports, lastCall>>
  /\ UNCHANGED besideState

\* onChange(callback), called by the listener that is executing
\* (state.ts:63-65): the callback is pushed on the array that the loop of
\* every activation in progress is iterating.
ListenerRegisters(callback) ==
  /\ stack # <<>>
  /\ Top.busy
  /\ Len(callbacks) < MaxListeners
  /\ callbacks' = Append(callbacks, callback)
  /\ tally' = Registered(tally)
  /\ UNCHANGED <<value, stack, calls, reports, lastCall>>
  /\ UNCHANGED besideState

\* A second State, created without a value (state.ts:19-28), with the
\* counts of its registrations.
NoOther ==
  [value |-> Constructed(Undefined), callbacks |-> <<>>, counts |-> NewTally]

\* onChange(callback) on the second State, from top-level code
\* (state.ts:63-65): its own array gets the callback.
OtherOnChange(callback) ==
  /\ stack = <<>>
  /\ Len(other.callbacks) < MaxOthers
  /\ other' = [other EXCEPT !.callbacks = Append(@, callback),
                            !.counts = Registered(@)]
  /\ UNCHANGED <<value, callbacks, stack, calls, reports, lastCall, tally>>
  /\ UNCHANGED <<timerVars, domVars, mediaVars>>

\* value = state on the second State, from top-level code, with listeners
\* that return or throw and call nothing (state.ts:40-57): the whole
\* dispatch, over the second State's own array.  throwing holds the
\* positions of the listeners that throw: the catch clause reports the
\* error and a warning for each of them (state.ts:52-55).  A set of the
\* value held returns before the loop (state.ts:42-44): nothing throws.
OtherSet(state, throwing) ==
  /\ stack = <<>>
  /\ other.counts.sets < MaxSets
  /\ throwing \subseteq DOMAIN other.callbacks
  /\ IF StrictEquals(other.value, state)
       THEN /\ throwing = {}
            /\ UNCHANGED other
            /\ reports' = 0
       ELSE /\ other' = [other EXCEPT
                           !.value = state,
                           !.counts = [Changed(@, other.value, state)
                                         EXCEPT !.invoked = Each(@)]]
            /\ reports' = 2 * Cardinality(throwing)
  /\ UNCHANGED <<value, callbacks, stack, calls, lastCall, tally>>
  /\ UNCHANGED <<timerVars, domVars, mediaVars>>

(***************************************************************************)
(* Time (src/unnamed/part_005)                                             *)
(***************************************************************************)

\* A JavaScript number given as a delay: NaN, or the rational num / den
\* with den > 0.
Num(n, d) == [nan |-> FALSE, num |-> n, den |-> d]
NaN == [nan |-> TRUE, num |-> 0, den |-> 1]

\* Math.floor(x): the greatest integer not above x; NaN stays NaN.
MathFloor(x) == IF x.nan THEN x ELSE Num(x.num \div x.den, 1)

\* Math.abs(x); NaN stays NaN.
MathAbs(x) ==
  IF x.nan THEN x ELSE Num(IF x.num < 0 THEN -x.num ELSE x.num, x.den)

\* A normalization that forgets Math.abs.
FloorOnly(ms) == MathFloor(ms)

\* ms = Math.abs(Math.floor(ms)) (part_005:45, part_005:87).
Normalize(ms) == MathAbs(MathFloor(ms))

\* A check that lets 0 through: ms < 0.
Negative(ms) == ~ms.nan /\ ms.num < 0

\* ms <= 0 (part_005:46, part_005:88): a comparison with NaN is false.
NotPositive(ms) == ~ms.nan /\ ms.num <= 0

\* A failure value without its sign: a number the host hands out.
UnsignedFailureHandle == 0 + 1

\* The value returned when no timer is created (part_005:48, part_005:90).
FailureHandle == -1

\* The delays, names and identifiers that callers pass.
MsInputs == {Num(0, 1), Num(1, 2), Num(-1, 2), Num(-5, 1), Num(5, 1), NaN}
TimerNames == {"", "tick", "1"}
NameInputs ==
  {[isFunction |-> TRUE, str |-> ""]} \cup
  {[isFunction |-> FALSE, str |-> n] : n \in TimerNames}
StopInputs ==
  {[isString |-> FALSE, num |-> n, str |-> ""] :
     n \in {FailureHandle} \cup (1 .. MaxTimers + 1)} \cup
  {[isString |-> TRUE, num |-> 0, str |-> n] : n \in TimerNames}

\* A doAfter that schedules with setInterval.
HostScheduleInterval(isTimeout) ==
  Append(host, [isTimeout |-> FALSE, status |-> "active"])

\* No host timer was scheduled by the call.
NoDelay == Num(0, 1)
NoName == [isFunction |-> TRUE, str |-> ""]
NoId == [isString |-> FALSE, num |-> 0, str |-> ""]

\* No call was made on the Time module yet.
NoOp ==
  [op |-> "none", ms |-> Num(0, 1), name |-> NoName, id |-> NoId,
   ret |-> 0, found |-> FALSE, cancel |-> "none", warned |-> FALSE,
   delay |-> NoDelay]

\* No callback is executing.
NoFiring == [before |-> <<>>, created |-> {}, stopped |-> {}]

\* An entry that keeps the name as given: name instead of name || undefined.
EntryNameAsGiven(name) ==
  [defined |-> TRUE, str |-> IF name.isFunction THEN "" ELSE name.str]

\* The second parameter is the callback when no name is given
\* (part_005:51-54, part_005:94-97); the empty name is stored as undefined
\* (part_005:57, part_005:115).
EntryName(name) ==
  LET str == IF name.isFunction THEN "" ELSE name.str
  IN  IF str = "" THEN [defined |-> FALSE, str |-> ""]
                  ELSE [defined |-> TRUE, str |-> str]

\* setInterval / setTimeout: the host hands out the next handle, a
\* positive integer, and keeps the timer active.  The delay of the call is
\* kept in lastOp.delay: it does not decide which timer fires next.
HostSchedule(isTimeout) ==
  Append(host, [isTimeout |-> isTimeout, status |-> "active"])

\* clearTimeout / clearInterval: an active timer with this handle is
\* cancelled; any other handle is ignored.
HostClear(handle) ==
  IF handle \in DOMAIN host /\ host[handle].status = "active"
    THEN [host EXCEPT ![handle].status = "cleared"]
    ELSE host

\* The elements of an array.
Elements(array) == {array[i] : i \in DOMAIN array}

\* Array.findIndex, the test given as the set of the elements that pass it:
\* the position (from 1) of the first element that passes, 0 when there is
\* none (JavaScript: from 0, and -1).
FindIndex(array, passing) ==
  IF \E i \in DOMAIN array : array[i] \in passing
    THEN CHOOSE i \in DOMAIN array :
           /\ array[i] \in passing
           /\ \A j \in 1 .. i - 1 : array[j] \notin passing
    ELSE 0

\* Array.splice(index): everything from index on is removed.
SpliceToEnd(array, index) == SubSeq(array, 1, index - 1)

\* Array.splice(index, 1).
Splice(array, index) ==
  SubSeq(array, 1, index - 1) \o SubSeq(array, index + 1, Len(array))

\* A creation call rejected for its delay (part_005:46-49, part_005:88-91).
Rejected(op, ms, name) ==
  /\ lastOp' = [op |-> op, ms |-> ms, name |-> name, id |-> NoId,
                ret |-> FailureHandle, found |-> FALSE, cancel |-> "none",
                warned |-> TRUE, delay |-> NoDelay]
  /\ UNCHANGED <<activeTimers, host, running>>

\* A creation that numbers the entries itself, by their position.
CreatedNumberingEntries(op, ms, name, isTimeout) ==
  /\ Len(host) < MaxTimers
  /\ host' = HostSchedule(isTimeout)
  /\ activeTimers' = Append(activeTimers,
                            [name |-> EntryName(name),
                             id |-> Len(activeTimers) + 1,
                             isTimeout |-> isTimeout])
  /\ lastOp' = [NoOp EXCEPT !.op = op, !.ms = ms, !.name = name,
                            !.ret = Len(activeTimers) + 1,
                            !.delay = Normalize(ms)]
  /\ UNCHANGED running

\* A creation call past the check: the host timer is scheduled with the
\* normalized delay, the entry is pushed, the handle is returned
\* (part_005:56-63, part_005:100-120).
Created(op, ms, name, isTimeout) ==
  /\ Len(host) < MaxTimers
  /\ host' = HostSchedule(isTimeout)
  /\ activeTimers' = Append(activeTimers,
                            [name |-> EntryName(name), id |-> Len(host'),
                             isTimeout |-> isTimeout])
  /\ lastOp' = [op |-> op, ms |-> ms, name |-> name, id |-> NoId,
                ret |-> Len(host'), found |-> FALSE, cancel |-> "none",
                warned |-> FALSE, delay |-> Normalize(ms)]
  /\ UNCHANGED running

\* doEvery(ms, callback) and doEvery(ms, name, callback).
DoEvery(ms, name) ==
  /\ running = 0
  /\ IF NotPositive(Normalize(ms))
       THEN Rejected("doEvery", ms, name)
       ELSE Created("doEvery", ms, name, FALSE)
  /\ UNCHANGED firing
  /\ UNCHANGED besideTime

\* doAfter(ms, callback) and doAfter(ms, name, callback).
DoAfter(ms, name) ==
  /\ running = 0
  /\ IF NotPositive(Normalize(ms))
       THEN Rejected("doAfter", ms, name)
       ELSE Created("doAfter", ms, name, TRUE)
  /\ UNCHANGED firing
  /\ UNCHANGED besideTime

\* A lookup that does not tell strings from numbers: the identifier is
\* compared, as text, with the names and with the handles.
LookupLoose(id) ==
  LET text == IF id.isString THEN id.str ELSE ToString(id.num)
  IN  FindIndex(activeTimers,
                {i \in Elements(activeTimers) :
                   \/ i.name.defined /\ i.name.str = text
                   \/ ToString(i.id) = text})

\* A lookup that resolves to the last match (Array.findLastIndex).
LookupLast(id) ==
  LET Test(i) == IF id.isString
                   THEN i.name.defined /\ i.name.str = id.str
                   ELSE i.id = id.num
      found == {i \in DOMAIN activeTimers : Test(activeTimers[i])}
  IN  IF found = {} THEN 0 ELSE CHOOSE i \in found : \A j \in found : j <= i

\* The lookup of stop (part_005:142-144): by name for a string, by handle
\* for a number.
Lookup(id) ==
  IF id.isString
    THEN FindIndex(activeTimers,
                   {i \in Elements(activeTimers) :
                      i.name.defined /\ i.name.str = id.str})
    ELSE FindIndex(activeTimers,
                   {i \in Elements(activeTimers) : i.id = id.num})

\* A stop that removes the entry and forgets to cancel the host's timer.
StopCallWithoutClear(id) ==
  /\ LET index == Lookup(id)
     IN  IF index = 0
           THEN /\ lastOp' = [op |-> "stop", ms |-> Num(0, 1), name |-> NoName,
                              id |-> id, ret |-> 0, found |-> FALSE,
                              cancel |-> "none", warned |-> TRUE,
                              delay |-> NoDelay]
                /\ UNCHANGED <<activeTimers, host>>
           ELSE /\ activeTimers' = Splice(activeTimers, index)
                /\ lastOp' = [op |-> "stop", ms |-> Num(0, 1), name |-> NoName,
                              id |-> id, ret |-> 0, found |-> TRUE,
                              cancel |-> "none", warned |-> FALSE,
                              delay |-> NoDelay]
                /\ UNCHANGED host
  /\ UNCHANGED running

\* The body of stop(id) (part_005:140-162).
StopCall(id) ==
  /\ LET index == Lookup(id)
     IN  IF index = 0
           THEN /\ lastOp' = [op |-> "stop", ms |-> Num(0, 1), name |-> NoName,
                              id |-> id, ret |-> 0, found |-> FALSE,
                              cancel |-> "none", warned |-> TRUE,
                              delay |-> NoDelay]
                /\ UNCHANGED <<activeTimers, host>>
           ELSE /\ host' = HostClear(activeTimers[index].id)
                /\ activeTimers' = Splice(activeTimers, index)
                /\ lastOp' = [op |-> "stop", ms |-> Num(0, 1), name |-> NoName,
                              id |-> id, ret |-> 0, found |-> TRUE,
                              cancel |-> IF activeTimers[index].isTimeout
                                           THEN "clearTimeout"
                                           ELSE "clearInterval",
                              warned |-> FALSE, delay |-> NoDelay]
  /\ UNCHANGED running

\* stop(id), called from top-level code.
Stop(id) ==
  /\ running = 0
  /\ StopCall(id)
  /\ UNCHANGED firing
  /\ UNCHANGED besideTime

\* doEvery, called by the callback that is executing.
CallbackDoesEvery(ms, name) ==
  /\ running # 0
  /\ IF NotPositive(Normalize(ms))
       THEN /\ Rejected("doEvery", ms, name)
            /\ UNCHANGED firing
       ELSE /\ Created("doEvery", ms, name, FALSE)
            /\ firing' = [firing EXCEPT !.created = @ \cup {Len(host')}]
  /\ UNCHANGED besideTime

\* doAfter, called by the callback that is executing.
CallbackDoesAfter(ms, name) ==
  /\ running # 0
  /\ IF NotPositive(Normalize(ms))
       THEN /\ Rejected("doAfter", ms, name)
            /\ UNCHANGED firing
       ELSE /\ Created("doAfter", ms, name, TRUE)
            /\ firing' = [firing EXCEPT !.created = @ \cup {Len(host')}]
  /\ UNCHANGED besideTime

\* stop(id), called by the callback that is executing.
CallbackStops(id) ==
  /\ running # 0
  /\ StopCall(id)
  /\ firing' = IF Lookup(id) = 0
                 THEN firing
                 ELSE [firing EXCEPT
                         !.stopped = @ \cup {activeTimers[Lookup(id)].id}]
  /\ UNCHANGED besideTime

\* The host runs the callback of an active timer: for doAfter the wrapper
\* of part_005:100-111 enters its try block, for doEvery the callback itself
\* is called.
HostFires(handle) ==
  /\ running = 0
  /\ handle \in DOMAIN host
  /\ host[handle].status = "active"
  /\ running' = handle
  /\ firing' = [NoFiring EXCEPT !.before = activeTimers]
  /\ lastOp' = [op |-> "fire", ms |-> Num(0, 1), name |-> NoName, id |-> NoId,
                ret |-> handle, found |-> FALSE, cancel |-> "none",
                warned |-> FALSE, delay |-> NoDelay]
  /\ UNCHANGED <<activeTimers, host>>
  /\ UNCHANGED besideTime

\* A finally block that splices without looking at the index: splice(-1, 1)
\* removes the last element.
CleanupUnchecked(handle) ==
  LET index == FindIndex(activeTimers,
                         {i \in Elements(activeTimers) : i.id = handle})
  IN  IF index > 0 THEN Splice(activeTimers, index) ELSE Front(activeTimers)

\* A finally block that splices at the position the entry had when the
\* callback began.
CleanupByPosition(handle) ==
  LET index == FindIndex(firing.before,
                         {i \in Elements(firing.before) : i.id = handle})
  IN  IF index > 0 /\ index <= Len(activeTimers)
        THEN Splice(activeTimers, index)
        ELSE activeTimers

\* A wrapper without its finally block.
CleanupNothing(handle) == activeTimers

\* The finally block of the doAfter wrapper (part_005:104-110).
Cleanup(handle) ==
  LET index == FindIndex(activeTimers,
                         {i \in Elements(activeTimers) : i.id = handle})
  IN  IF index > 0 THEN Splice(activeTimers, index) ELSE activeTimers

\* A doEvery that wraps its callback as doAfter does: the entry is removed
\* after every firing.
CallbackEndsUnregistering(how) ==
  /\ running # 0
  /\ activeTimers' = Cleanup(running)
  /\ host' = [host EXCEPT ![running].status =
                IF @ = "active" /\ host[running].isTimeout THEN "done" ELSE @]
  /\ lastOp' = [NoOp EXCEPT !.op = how, !.ret = running]
  /\ running' = 0
  /\ firing' = [firing EXCEPT !.before = <<>>]
  /\ UNCHANGED besideTime

\* The callback is over.  A one-shot timer leaves the host's active timers
\* and the wrapper's finally block has run, on both exits; a repeating
\* timer stays active.
CallbackEnds(how) ==
  /\ running # 0
  /\ IF host[running].isTimeout
       THEN /\ activeTimers' = Cleanup(running)
            /\ host' = [host EXCEPT ![running].status =
                          IF @ = "active" THEN "done" ELSE @]
       ELSE UNCHANGED <<activeTimers, host>>
  /\ lastOp' = [op |-> how, ms |-> Num(0, 1), name |-> NoName, id |-> NoId,
                ret |-> running, found |-> FALSE, cancel |-> "none",
                warned |-> FALSE, delay |-> NoDelay]
  /\ running' = 0
  /\ firing' = [firing EXCEPT !.before = <<>>]
  /\ UNCHANGED besideTime

\* A wrapper that cleans up after the callback, without try/finally.
CallbackThrowsNoFinally ==
  /\ running # 0
  /\ IF host[running].isTimeout
       THEN host' = [host EXCEPT ![running].status =
                       IF @ = "active" THEN "done" ELSE @]
       ELSE UNCHANGED host
  /\ lastOp' = [op |-> "threw", ms |-> Num(0, 1), name |-> NoName,
                id |-> NoId, ret |-> running, found |-> FALSE,
                cancel |-> "none", warned |-> FALSE, delay |-> NoDelay]
  /\ running' = 0
  /\ firing' = [firing EXCEPT !.before = <<>>]
  /\ UNCHANGED activeTimers
  /\ UNCHANGED besideTime

CallbackReturns == CallbackEnds("returned")

CallbackThrows == CallbackEnds("threw")

(***************************************************************************)
(* DOM (src/src/dom.ts): addElement, clear, writeText and writeHTML,       *)
(* called with one element of the page, or with a selector that matches    *)
(* nothing.  The elements made with createElement are numbered from 1 in   *)
(* the order of their creation; the nodes that the host makes for          *)
(* innerText and innerHTML are new at every write and numbered below 0.    *)
(***************************************************************************)

\* The index argument: omitted, or a number.
OmittedIndex == [omitted |-> TRUE, number |-> NaN]
IndexInputs ==
  {OmittedIndex} \cup
  {[omitted |-> FALSE, number |-> n] :
     n \in {Num(i, 1) : i \in -1 .. MaxChildren + 1} \cup {Num(3, 2), NaN}}

\* Number(index) (dom.ts:361): undefined converts to NaN.
ToNumber(index) == IF index.omitted THEN NaN ELSE index.number

\* x || length (dom.ts:361): NaN and 0 are falsy.
OrLength(x, length) == IF x.nan \/ x.num = 0 THEN Num(length, 1) ELSE x

\* a <= b for two numbers that are not NaN.
LessEq(a, b) == a.num * b.den <= b.num * a.den

MathMax(a, b) == IF LessEq(a, b) THEN b ELSE a
MathMin(a, b) == IF LessEq(a, b) THEN a ELSE b

\* Math.min(Math.max(index, 0), length) (dom.ts:362).
Clamp(x, length) == MathMin(MathMax(x, Num(0, 1)), Num(length, 1))

\* The index as addElement uses it (dom.ts:361-362).
FixIndex(index, length) == Clamp(OrLength(ToNumber(index), length), length)

\* parent.childNodes[x]: the node at the 0-based position x, 0 (undefined)
\* when x is not the index of a node.
ChildAt(x) ==
  IF x.num % x.den = 0 /\ (x.num \div x.den) + 1 \in DOMAIN childNodes
    THEN childNodes[(x.num \div x.den) + 1]
    ELSE 0

\* parent.insertBefore(newChild, reference): before the reference node, at
\* the end when there is no reference.
InsertBefore(newChild, reference) ==
  IF reference = 0
    THEN Append(childNodes, newChild)
    ELSE LET at == CHOOSE i \in DOMAIN childNodes : childNodes[i] = reference
         IN  SubSeq(childNodes, 1, at - 1) \o <<newChild>> \o
             SubSeq(childNodes, at, Len(childNodes))

NoAdd ==
  [op |-> "none", index |-> OmittedIndex, present |-> TRUE, before |-> <<>>,
   created |-> 0, threw |-> FALSE]

\* addElement(tagName, parent, index) (dom.ts:347-375).  With a parent
\* the element is created and placed among its children.  Without one
\* (omitted, or a selector that matches nothing) the parent is the
\* document (dom.ts:355-358): the element is created, and the host refuses
\* a second element under the document, so that appendChild or
\* insertBefore throws and the element of the page is left as it is.
AddElement(present, index) ==
  /\ Len(childNodes) < MaxChildren
  /\ nodes < MaxNodes
  /\ nodes' = nodes + 1
  /\ LET length == Len(childNodes)
         fixed == FixIndex(index, length)
         newChild == nodes + 1
     IN  /\ childNodes' =
              IF ~present
                THEN childNodes
                ELSE IF LessEq(Num(length, 1), fixed)
                       THEN Append(childNodes, newChild)
                       ELSE InsertBefore(newChild, ChildAt(fixed))
         /\ lastAdd' = [op |-> "addElement", index |-> index,
                        present |-> present, before |-> childNodes,
                        created |-> newChild, threw |-> ~present]
  /\ UNCHANGED besideDom

\* clear(selectors) (dom.ts:401-414): every child is removed, the last one
\* first; false is returned, and nothing done, when there is no element.
Clear(present) ==
  /\ childNodes' = IF present THEN <<>> ELSE childNodes
  /\ lastAdd' = [op |-> "clear", index |-> OmittedIndex, present |-> present,
                 before |-> childNodes, created |-> 0, threw |-> FALSE]
  /\ UNCHANGED nodes
  /\ UNCHANGED besideDom

\* The texts and the HTML codes written, and the number of nodes that the
\* host makes of them: one text node for a text that is not empty and has
\* no line break, one node for each top-level element of the code.
TextInputs == {"", "hello"}
HtmlInputs == {"", "<b>x</b>", "<b>x</b><i>y</i>"}
NodesOf(content) ==
  CASE content = "" -> 0
    [] content = "<b>x</b><i>y</i>" -> 2
    [] OTHER -> 1

\* The children of an element after innerText or innerHTML is set: the
\* former ones are gone, the new ones are nodes that the host made.
Written(content) == [i \in 1 .. NodesOf(content) |-> -i]

\* writeText(selectors, text) (dom.ts:78-87): element.innerText = text
\* overwrites the content of the element; nothing is done when there is
\* no element.
WriteText(present, text) ==
  /\ childNodes' = IF present THEN Written(text) ELSE childNodes
  /\ lastAdd' = [op |-> "writeText", index |-> OmittedIndex,
                 present |-> present, before |-> childNodes, created |-> 0,
                 threw |-> FALSE]
  /\ UNCHANGED nodes
  /\ UNCHANGED besideDom

\* writeHTML(selectors, html) (dom.ts:119-128): element.innerHTML = html
\* overwrites the content of the element; nothing is done when there is
\* no element.
WriteHTML(present, html) ==
  /\ childNodes' = IF present THEN Written(html) ELSE childNodes
  /\ lastAdd' = [op |-> "writeHTML", index |-> OmittedIndex,
                 present |-> present, before |-> childNodes, created |-> 0,
                 threw |-> FALSE]
  /\ UNCHANGED nodes
  /\ UNCHANGED besideDom

(***************************************************************************)
(* Media (src/src/media.ts): playSound.  An audio element is known by the  *)
(* file it plays and its position in the list of that file.                *)
(***************************************************************************)
Files == {"a.mp3", "b.mp3"}

\* Media.audioSources when the module is loaded (media.ts:15); a file
\* without a list is a file with an empty one (media.ts:27-31).
NoSources == [file \in Files |-> <<>>]

NoPlay ==
  [op |-> "none", file |-> "", multiple |-> FALSE, loop |-> FALSE,
   allowed |-> FALSE, returned |-> 0]

\* new Audio(file): not playing, at the start, not looping.
NewAudio == [paused |-> TRUE, currentTime |-> 0, loop |-> FALSE]

\* The number of audio elements created so far.
RECURSIVE CountAudio(_, _)
CountAudio(sources, files) ==
  IF files = {}
    THEN 0
    ELSE LET file == CHOOSE f \in files : TRUE
         IN  Len(sources[file]) + CountAudio(sources, files \ {file})

\* A search that takes the last paused element.
LastPaused(elements) ==
  IF \E i \in DOMAIN elements : elements[i].paused
    THEN CHOOSE i \in DOMAIN elements :
           /\ elements[i].paused
           /\ \A j \in DOMAIN elements : elements[j].paused => j <= i
    ELSE 0

\* The loop over the elements of the file that stops on the first one that
\* is paused (media.ts:51-58); 0 when every element is playing.
FirstPaused(elements) ==
  FindIndex(elements, {e \in Elements(elements) : e.paused})

\* The element that playSound plays, 0 for a new one: the first of the file
\* when multiple is false (media.ts:35-41), the first paused one otherwise.
Chosen(elements, multiple) ==
  IF multiple
    THEN FirstPaused(elements)
    ELSE IF Len(elements) > 0 THEN 1 ELSE 0

\* audio.currentTime = 0; audio.loop = loop; audio.play()
\* (media.ts:37, 43-44, 55, 65-66).  The element starts playing when the
\* host allows it; play() on an element the host does not let play leaves
\* it paused (its promise is rejected, which playSound does not look at).
Restarted(audio, loop, allowed) ==
  [audio EXCEPT !.currentTime = 0, !.loop = loop,
                !.paused = IF allowed THEN FALSE ELSE @]

\* playSound(file, multiple, loop) (media.ts:26-69), on a host that allows
\* the playback or does not.
PlaySound(file, multiple, loop, allowed) ==
  LET elements == audioSources[file]
      chosen == Chosen(elements, multiple)
  IN  /\ chosen = 0 => CountAudio(audioSources, Files) < MaxAudio
      /\ audioSources' =
           [audioSources EXCEPT ![file] =
              IF chosen = 0
                THEN Append(elements, Restarted(NewAudio, loop, allowed))
                ELSE [elements EXCEPT ![chosen] =
                        Restarted(@, loop, allowed)]]
      /\ lastPlay' = [op |-> "playSound", file |-> file,
                      multiple |-> multiple, loop |-> loop,
                      allowed |-> allowed,
                      returned |-> IF chosen = 0 THEN Len(elements) + 1
                                                 ELSE chosen]
      /\ UNCHANGED besideMedia

\* The host plays an element: its position moves on.
TimePasses(file, i) ==
  /\ i \in DOMAIN audioSources[file]
  /\ ~audioSources[file][i].paused
  /\ audioSources[file][i].currentTime = 0
  /\ audioSources' = [audioSources EXCEPT ![file][i].currentTime = 1]
  /\ lastPlay' = [lastPlay EXCEPT !.op = "time"]
  /\ UNCHANGED besideMedia

\* A looping element that is playing reaches the end of the file and
\* starts again: the host takes its position back to 0.
PlaybackLoops(file, i) ==
  /\ i \in DOMAIN audioSources[file]
  /\ ~audioSources[file][i].paused
  /\ audioSources[file][i].loop
  /\ audioSources[file][i].currentTime = 1
  /\ audioSources' = [audioSources EXCEPT ![file][i].currentTime = 0]
  /\ lastPlay' = [lastPlay EXCEPT !.op = "looped"]
  /\ UNCHANGED besideMedia

\* An element stops playing: it was paused by the page, or it reached the
\* end of the file without looping.
PlaybackStops(file, i) ==
  /\ i \in DOMAIN audioSources[file]
  /\ ~audioSources[file][i].paused
  /\ audioSources' = [audioSources EXCEPT ![file][i].paused = TRUE]
  /\ lastPlay' = [lastPlay EXCEPT !.op = "stopped"]
  /\ UNCHANGED besideMedia

(***************************************************************************)
(* Specifications: one per module.  The variables of the other module keep *)
(* their initial values.                                                   *)
(***************************************************************************)
\* new State(state) / state(value): the value is held, there is no listener
\* yet (state.ts:19-28, state.ts:83-85).
StateInit(counts) ==
  \E state \in Values :
    /\ value = Constructed(state)
    /\ callbacks = <<>>
    /\ stack = <<>>
    /\ calls = <<>>
    /\ reports = 0
    /\ lastCall = [op |-> "state", arg |-> state, before |-> state,
                   prior |-> state, completion |-> "normal",
                   read |-> Undefined, nested |-> 0]
    /\ tally = counts
    /\ other = NoOther
    /\ activeTimers = <<>>
    /\ host = <<>>
    /\ running = 0
    /\ lastOp = NoOp
    /\ firing = NoFiring
    /\ childNodes = <<>>
    /\ nodes = 0
    /\ lastAdd = NoAdd
    /\ audioSources = NoSources
    /\ lastPlay = NoPlay

Init == StateInit(NoTally)

\* Two States just created, in an execution that counts the invocations.
CountingInit == StateInit(NewTally)

\* The Time module loaded beside a State created without a value.
TimerInit ==
  /\ value = Constructed(Undefined)
  /\ callbacks = <<>>
  /\ stack = <<>>
  /\ calls = <<>>
  /\ reports = 0
  /\ lastCall = NoCall
  /\ tally = NoTally
  /\ other = NoOther
  /\ activeTimers = <<>>
  /\ host = <<>>
  /\ running = 0
  /\ lastOp = NoOp
  /\ firing = NoFiring
  /\ childNodes = <<>>
  /\ nodes = 0
  /\ lastAdd = NoAdd
  /\ audioSources = NoSources
  /\ lastPlay = NoPlay

StateNext ==
  \/ \E state \in Values : SetValue(state)
  \/ InvokeListener
  \/ ListenerReturns
  \/ ListenerThrows
  \/ SetReturns
  \/ \E callback \in Listeners : OnChange(callback)
  \/ GetValue

StateSpec == Init /\ [][StateNext]_vars

\* State with listeners that set the value while they execute, and return.
ReentrantNext ==
  \/ \E state \in Values : SetValue(state)
  \/ InvokeListener
  \/ ListenerReturns
  \/ SetReturns
  \/ \E callback \in Listeners : OnChange(callback)
  \/ \E state \in Values : ListenerSets(state)

ReentrantSpec == Init /\ [][ReentrantNext]_vars

\* The values that top-level code sets in the executions that count the
\* invocations, and the values that it and the listeners set in the
\* executions with listeners that register listeners.
SetInputs == {PosZero, "1"}
NestedInputs == {NaNValue, PosZero, "1"}

\* State with listeners that register listeners while they execute, and
\* set the value, once in a dispatch.
RegisteringNext ==
  \/ \E state \in NestedInputs : SetValue(state)
  \/ InvokeListener
  \/ ListenerReturns
  \/ SetReturns
  \/ \E callback \in Listeners : OnChange(callback)
  \/ \E callback \in Listeners : ListenerRegisters(callback)
  \/ \E state \in NestedInputs : lastCall.nested = 0 /\ ListenerSets(state)

RegisteringSpec == Init /\ [][RegisteringNext]_vars

\* The listener registered on the second State: one that the first State
\* may have too.
OtherListeners == {"L1"}

\* Two States used from top-level code, in executions that count the
\* invocations: the listeners of the first State return, those of the
\* second State return or throw, and none of them calls anything.
CountingNext ==
  \/ \E state \in SetInputs : SetValue(state)
  \/ InvokeListener
  \/ ListenerReturns
  \/ SetReturns
  \/ \E callback \in Listeners : OnChange(callback)
  \/ GetValue
  \/ \E callback \in OtherListeners : OtherOnChange(callback)
  \/ \E state \in SetInputs, throwing \in SUBSET (1 .. MaxOthers) :
       OtherSet(state, throwing)

CountingSpec == CountingInit /\ [][CountingNext]_vars

TimerNext ==
  \/ \E ms \in MsInputs, name \in NameInputs : DoEvery(ms, name)
  \/ \E ms \in MsInputs, name \in NameInputs : DoAfter(ms, name)
  \/ \E id \in StopInputs : Stop(id)
  \/ \E handle \in 1 .. MaxTimers : HostFires(handle)
  \/ CallbackReturns
  \/ CallbackThrows

TimerSpec == TimerInit /\ [][TimerNext]_vars

\* The delays and names of the executions followed to their end: a delay
\* that is rejected and one that is accepted, no name and a name.
FairMsInputs == {Num(0, 1), Num(5, 1)}
FairNameInputs ==
  {[isFunction |-> TRUE, str |-> ""], [isFunction |-> FALSE, str |-> "tick"]}

TimerFairNext ==
  \/ \E ms \in FairMsInputs, name \in FairNameInputs : DoEvery(ms, name)
  \/ \E ms \in FairMsInputs, name \in FairNameInputs : DoAfter(ms, name)
  \/ \E id \in StopInputs : Stop(id)
  \/ \E handle \in 1 .. MaxTimers : HostFires(handle)
  \/ CallbackReturns
  \/ CallbackThrows

\* The Time module with callbacks that call doEvery, doAfter and stop
\* while they execute.
TimerReentrantNext ==
  \/ \E ms \in FairMsInputs, name \in FairNameInputs : DoEvery(ms, name)
  \/ \E ms \in FairMsInputs, name \in FairNameInputs : DoAfter(ms, name)
  \/ \E id \in StopInputs : Stop(id)
  \/ \E handle \in 1 .. MaxTimers : HostFires(handle)
  \/ CallbackReturns
  \/ CallbackThrows
  \/ \E ms \in FairMsInputs, name \in FairNameInputs :
       CallbackDoesEvery(ms, name)
  \/ \E ms \in FairMsInputs, name \in FairNameInputs :
       CallbackDoesAfter(ms, name)
  \/ \E id \in StopInputs : CallbackStops(id)

TimerReentrantSpec == TimerInit /\ [][TimerReentrantNext]_vars

\* The Time module on a host that fires every timer that stays scheduled,
\* with callbacks that end.
TimerFairSpec ==
  /\ TimerInit
  /\ [][TimerFairNext]_vars
  /\ \A handle \in 1 .. MaxTimers : SF_vars(HostFires(handle))
  /\ WF_vars(CallbackReturns \/ CallbackThrows)

\* A program that uses one of the two modules, State or Time.  The modules
\* share no variable: a state of a program that uses both is a state of
\* State beside a state of Time, each reached as here.
EitherNext ==
  \/ /\ lastOp.op = "none"
     /\ StateNext
  \/ /\ lastCall = NoCall
     /\ TimerNext

EitherSpec == Init /\ [][EitherNext]_vars

\* A page whose element has up to two children, made with createElement,
\* before the DOM module is called.
DomInit ==
  /\ value = Constructed(Undefined)
  /\ callbacks = <<>>
  /\ stack = <<>>
  /\ calls = <<>>
  /\ reports = 0
  /\ lastCall = NoCall
  /\ tally = NoTally
  /\ other = NoOther
  /\ activeTimers = <<>>
  /\ host = <<>>
  /\ running = 0
  /\ lastOp = NoOp
  /\ firing = NoFiring
  /\ childNodes \in {<<>>, <<1>>, <<1, 2>>}
  /\ nodes = Len(childNodes)
  /\ lastAdd = NoAdd
  /\ audioSources = NoSources
  /\ lastPlay = NoPlay

DomNext ==
  \/ \E present \in BOOLEAN, index \in IndexInputs : AddElement(present, index)
  \/ \E present \in BOOLEAN : Clear(present)
  \/ \E present \in BOOLEAN, text \in TextInputs : WriteText(present, text)
  \/ \E present \in BOOLEAN, html \in HtmlInputs : WriteHTML(present, html)

DomSpec == DomInit /\ [][DomNext]_vars

MediaNext ==
  \/ \E file \in Files, multiple \in BOOLEAN, loop \in BOOLEAN,
        allowed \in BOOLEAN :
       PlaySound(file, multiple, loop, allowed)
  \/ \E file \in Files, i \in 1 .. MaxAudio : TimePasses(file, i)
  \/ \E file \in Files, i \in 1 .. MaxAudio : PlaybackLoops(file, i)
  \/ \E file \in Files, i \in 1 .. MaxAudio : PlaybackStops(file, i)

\* The Media module starts as the Time module does: nothing created yet.
MediaSpec == TimerInit /\ [][MediaNext]_vars

(***************************************************************************)
(* Properties of State, checked under StateSpec.                           *)
(***************************************************************************)

\* The last top-level call was a set, of a value that differs (!==) from
\* the value held when it was made.
ChangingSet ==
  /\ lastCall.op = "set"
  /\ ~StrictEquals(lastCall.before, lastCall.arg)

\* Every invocation made so far by the last set went to the listener at
\* its position in the list, with the set's argument and the value held
\* before the set.
InvokedInOrder ==
  /\ Len(calls) <= Len(callbacks)
  /\ \A i \in DOMAIN calls :
       /\ calls[i].listener = callbacks[i]
       /\ calls[i].value = lastCall.arg
       /\ calls[i].previous = lastCall.before

\* The last set was a no-op: nothing invoked, nothing reported, the held
\* value is the one held before, and the setter has returned.
WasNoOp ==
  /\ calls = <<>>
  /\ reports = 0
  /\ stack = <<>>
  /\ value = lastCall.before
  /\ lastCall.completion = "normal"

\* C1, as stated: a set of a value strictly equal (===) to the held value is
\* a no-op (no listener invoked, held value unchanged); and a set of the
\* very value given to the previous set, or to the constructor when there
\* was no set, invokes no listener.
C1_SameValueSetInvokesNothing ==
  lastCall.op = "set" =>
    /\ StrictEquals(lastCall.before, lastCall.arg) => WasNoOp
    /\ lastCall.arg = lastCall.prior => calls = <<>>

\* C1, amended: a set of a value strictly equal (===) to the held value is
\* a no-op (no listener invoked, held value unchanged); and a set of the
\* very value given to the previous set, or to the constructor when there
\* was no set, is a no-op too unless that value is NaN, which is not
\* strictly equal to itself.
C1_StrictlyEqualSetIsNoOp ==
  lastCall.op = "set" =>
    /\ StrictEquals(lastCall.before, lastCall.arg) => WasNoOp
    /\ (lastCall.arg = lastCall.prior /\ lastCall.arg # NaNValue) => WasNoOp

\* C1, witness: with a listener registered, a value was set and then set
\* again.
C1_Witness ==
  /\ lastCall.op = "set"
  /\ callbacks # <<>>
  /\ lastCall.arg = lastCall.prior
  /\ lastCall.arg = "1"
  /\ StrictEquals(lastCall.before, lastCall.arg)

\* C2: after set(next) with next different from the held value, the held
\* value is next; the listeners are invoked one by one in registration
\* order, each with (next, value held before the set); and when the setter
\* returns every registration has been invoked exactly once and has
\* finished.
C2_EveryListenerInvokedInOrder ==
  ChangingSet =>
    /\ value = lastCall.arg
    /\ InvokedInOrder
    /\ stack # <<>> => lastCall.completion = "pending"
    /\ stack = <<>> =>
         /\ Len(calls) = Len(callbacks)
         /\ \A i \in DOMAIN calls : calls[i].outcome # "running"

\* C2, witness: a set that changed the value has returned after invoking
\* three registrations, of two different listeners, that all returned.
C2_Witness ==
  /\ ChangingSet
  /\ stack = <<>>
  /\ Len(calls) = 3
  /\ calls[1].listener # calls[2].listener
  /\ \A i \in DOMAIN calls : calls[i].outcome = "returned"

\* C3: a listener that throws does not end the dispatch: the error is not
\* re-thrown by the setter, each failure is reported, the listeners after
\* the failing one are invoked with (next, previous), and when the setter
\* returns it returns normally with next held, whatever the positions and
\* the number of the failing listeners.
C3_ThrowingListenerIsIsolated ==
  ChangingSet =>
    /\ lastCall.completion # "throw"
    /\ reports =
         2 * Cardinality({i \in DOMAIN calls : calls[i].outcome = "threw"})
    /\ \A i \in DOMAIN calls :
         (calls[i].outcome = "threw" /\ i < Len(callbacks)) =>
           \/ stack # <<>>
           \/ /\ i + 1 \in DOMAIN calls
              /\ calls[i + 1].value = lastCall.arg
              /\ calls[i + 1].previous = lastCall.before
    /\ stack = <<>> =>
         /\ lastCall.completion = "normal"
         /\ value = lastCall.arg
         /\ Len(calls) = Len(callbacks)

\* C3, witness: the first and the last of three listeners threw, the one
\* between them returned, and the setter has returned.
C3_Witness ==
  /\ ChangingSet
  /\ stack = <<>>
  /\ Len(calls) = 3
  /\ calls[1].outcome = "threw"
  /\ calls[2].outcome = "returned"
  /\ calls[3].outcome = "threw"

\* The step is a read of the value from top-level code.
GetStep == lastCall'.op = "get"

\* C12, as stated: the value read from a State just created is strictly
\* equal (===) to the constructor's argument, undefined when there is none;
\* and a read returns the held value while no dispatch is in progress.
C12_ReadIsStrictlyEqualToArgument ==
  /\ lastCall.op = "state" => StrictEquals(value, lastCall.arg)
  /\ lastCall.op = "get" => (lastCall.read = value /\ stack = <<>>)

\* C12, amended: the value read from a State just created is the
\* constructor's argument itself, undefined when there is none, and is
\* strictly equal (===) to it unless it is NaN; a read returns the held
\* value, invokes no listener and changes neither the held value nor the
\* listener list, so that a read made again with no set between the two
\* returns the same value.
C12_ReadIsPure ==
  /\ [](/\ lastCall.op = "state" =>
             /\ value = lastCall.arg
             /\ lastCall.arg # NaNValue => StrictEquals(value, lastCall.arg)
        /\ lastCall.op = "get" => lastCall.read = value)
  /\ [][GetStep =>
          /\ lastCall'.read = value
          /\ UNCHANGED <<value, callbacks, stack, calls, reports>>]_vars

\* C12, witness: a value was set with a listener registered and then read.
C12_Witness ==
  /\ lastCall.op = "get"
  /\ lastCall.read = "1"
  /\ lastCall.before = NaNValue
  /\ Len(calls) = 1

(***************************************************************************)
(* Properties of the timer registry, checked under TimerSpec.              *)
(***************************************************************************)

\* The registry holds an entry with this handle.
HasEntry(handle) == \E i \in DOMAIN activeTimers : activeTimers[i].id = handle

\* The entry is the one a stop(id) looks for: a string is compared with the
\* names, a number with the handles.
Matches(entry, id) ==
  IF id.isString
    THEN entry.name.defined /\ entry.name.str = id.str
    ELSE entry.id = id.num

\* The array without its element at position index.
Without(array, index) ==
  [j \in 1 .. Len(array) - 1 |-> IF j < index THEN array[j] ELSE array[j + 1]]

\* The step is a call of stop, of doEvery or doAfter.
StopStep == lastOp'.op = "stop"
CreateStep == lastOp'.op \in {"doEvery", "doAfter"}

\* C4: doAfter returns before the callback runs (no callback is executing
\* and the timer has not fired when it returns) with the entry registered;
\* the entry of a one-shot that has not fired and was not stopped stays
\* registered, also while its callback executes; once the firing is over,
\* by a return or by a throw of the callback, the entry is gone; and a stop
\* of the handle of a one-shot that has fired returns false.
C4_OneShotEntryLivesUntilFired ==
  /\ (lastOp.op = "doAfter" /\ lastOp.ret # FailureHandle) =>
       /\ running = 0
       /\ host[lastOp.ret].isTimeout
       /\ host[lastOp.ret].status = "active"
       /\ HasEntry(lastOp.ret)
  /\ \A h \in DOMAIN host :
       (host[h].isTimeout /\ host[h].status = "active") => HasEntry(h)
  /\ (lastOp.op \in {"returned", "threw"} /\ host[lastOp.ret].isTimeout) =>
       /\ running = 0
       /\ host[lastOp.ret].status = "done"
       /\ ~HasEntry(lastOp.ret)
  /\ (/\ lastOp.op = "stop"
      /\ ~lastOp.id.isString
      /\ lastOp.id.num \in DOMAIN host
      /\ host[lastOp.id.num].status = "done") => ~lastOp.found

\* C4, witness: the callback of a one-shot timer threw; the firing is over
\* and another timer is still registered.
C4_Witness ==
  /\ lastOp.op = "threw"
  /\ host[lastOp.ret].isTimeout
  /\ host[lastOp.ret].status = "done"
  /\ activeTimers # <<>>

\* C5: a stop that finds an entry cancels the host timer of that entry
\* with clearTimeout for a one-shot and clearInterval for a repeating
\* timer, removes that entry and no other, keeps the order of the others,
\* and returns true; a cancelled timer stays cancelled and its callback is
\* never started again.
C5_StopCancelsAndRemovesTheEntry ==
  [][/\ (StopStep /\ \E i \in DOMAIN activeTimers :
                       Matches(activeTimers[i], lastOp'.id)) =>
          \E i \in DOMAIN activeTimers :
            /\ Matches(activeTimers[i], lastOp'.id)
            /\ activeTimers' = Without(activeTimers, i)
            /\ lastOp'.found
            /\ lastOp'.cancel = IF host[activeTimers[i].id].isTimeout
                                  THEN "clearTimeout" ELSE "clearInterval"
            /\ host' = [host EXCEPT ![activeTimers[i].id].status = "cleared"]
     /\ \A h \in DOMAIN host :
          host[h].status = "cleared" =>
            /\ host'[h].status = "cleared"
            /\ running' # h
    ]_vars

\* C5, witness: a stop by name found a one-shot timer and two other timers
\* are still registered.
C5_Witness ==
  /\ lastOp.op = "stop"
  /\ lastOp.found
  /\ lastOp.id.isString
  /\ lastOp.cancel = "clearTimeout"
  /\ Len(activeTimers) = 2

\* C6: a stop that matches no entry returns false, cancels no host timer
\* and leaves the registry as it is; a stop of a handle made right after a
\* successful stop of the same handle returns false.
C6_StopWithoutMatchChangesNothing ==
  [][StopStep =>
       /\ (\A i \in DOMAIN activeTimers :
             ~Matches(activeTimers[i], lastOp'.id)) =>
            /\ ~lastOp'.found
            /\ lastOp'.cancel = "none"
            /\ activeTimers' = activeTimers
            /\ host' = host
       /\ (/\ lastOp.op = "stop"
           /\ lastOp.found
           /\ ~lastOp.id.isString
           /\ lastOp'.id = lastOp.id) => ~lastOp'.found
    ]_vars

\* C6, witness: a stop of the handle of a timer already stopped found
\* nothing, while another timer is registered.
C6_Witness ==
  /\ lastOp.op = "stop"
  /\ ~lastOp.found
  /\ ~lastOp.id.isString
  /\ lastOp.id.num \in DOMAIN host
  /\ host[lastOp.id.num].status = "cleared"
  /\ activeTimers # <<>>

\* C7: when entries share a name, stop(name) cancels and removes the one
\* created first (the one with the least handle) and no other: the others
\* stay registered and their host timers are untouched.
C7_StopByNameTakesTheEarliest ==
  [][(StopStep /\ lastOp'.id.isString) =>
       LET same == {i \in DOMAIN activeTimers :
                      Matches(activeTimers[i], lastOp'.id)}
       IN  same # {} =>
             \E i \in same :
               /\ \A j \in same : activeTimers[i].id <= activeTimers[j].id
               /\ activeTimers' = Without(activeTimers, i)
               /\ host'[activeTimers[i].id].status = "cleared"
               /\ \A j \in same \ {i} :
                    /\ \E k \in DOMAIN activeTimers' :
                         activeTimers'[k] = activeTimers[j]
                    /\ host'[activeTimers[j].id] = host[activeTimers[j].id]
    ]_vars

\* C7, witness: a stop by name removed an entry and another entry with
\* that name, created later, is still registered with its timer active.
C7_Witness ==
  /\ lastOp.op = "stop"
  /\ lastOp.id.isString
  /\ lastOp.found
  /\ \E i \in DOMAIN activeTimers :
       /\ Matches(activeTimers[i], lastOp.id)
       /\ host[activeTimers[i].id].status = "active"
       /\ \E h \in 1 .. activeTimers[i].id - 1 : host[h].status = "cleared"

\* floor and absolute value of the rational num / den, from their
\* definitions.
FloorOf(ms) ==
  CHOOSE k \in -(ms.num * ms.num) - 1 .. ms.num * ms.num + 1 :
    k * ms.den <= ms.num /\ ms.num < (k + 1) * ms.den
AbsOf(n) == IF n < 0 THEN -n ELSE n

\* C8: doEvery and doAfter fail exactly when abs(floor(ms)) <= 0, that is
\* when 0 <= ms < 1: they return -1, schedule nothing and register nothing.
\* For any other ms they schedule a host timer of their kind with the delay
\* abs(floor(ms)) (NaN for NaN), register it last and return its handle.
C8_FailsExactlyWhenNormalizedDelayIsZero ==
  [][CreateStep =>
       LET ms == lastOp'.ms
       IN  IF ~ms.nan /\ AbsOf(FloorOf(ms)) <= 0
             THEN /\ lastOp'.ret = FailureHandle
                  /\ host' = host
                  /\ activeTimers' = activeTimers
             ELSE /\ lastOp'.ret > 0
                  /\ lastOp'.ret \notin DOMAIN host
                  /\ DOMAIN host' = DOMAIN host \cup {lastOp'.ret}
                  /\ \A h \in DOMAIN host : host'[h] = host[h]
                  /\ host'[lastOp'.ret].status = "active"
                  /\ host'[lastOp'.ret].isTimeout = (lastOp'.op = "doAfter")
                  /\ lastOp'.delay = IF ms.nan THEN NaN
                                               ELSE Num(AbsOf(FloorOf(ms)), 1)
                  /\ Len(activeTimers') = Len(activeTimers) + 1
                  /\ Front(activeTimers') = activeTimers
                  /\ Last(activeTimers').id = lastOp'.ret
                  /\ Last(activeTimers').isTimeout = (lastOp'.op = "doAfter")
    ]_vars

\* C8, witness: doAfter(-0.5, ...) succeeded with a delay of 1 ms.
C8_Witness ==
  /\ lastOp.op = "doAfter"
  /\ lastOp.ms = Num(-1, 2)
  /\ lastOp.ret \in DOMAIN host
  /\ lastOp.delay = Num(1, 1)

\* C9, as stated: doEvery(0, cb) and doEvery(-5, cb) both fail: each
\* returns the failure value and registers no entry for a new timer.
C9_ZeroAndMinusFiveBothFail ==
  (lastOp.op = "doEvery" /\ lastOp.ms \in {Num(0, 1), Num(-5, 1)}) =>
    /\ lastOp.ret = FailureHandle
    /\ lastOp.warned
    /\ ~HasEntry(Len(host))

\* C9, amended: doEvery(0, cb) fails: it returns the failure value, creates
\* no host timer and adds no entry.  doEvery(-5, cb) does not fail: it
\* creates a repeating host timer of 5 ms, registers it and returns its
\* handle.
C9_ZeroFailsMinusFiveIsFiveMs ==
  [][lastOp'.op = "doEvery" =>
       /\ lastOp'.ms = Num(0, 1) =>
            /\ lastOp'.ret = FailureHandle
            /\ lastOp'.warned
            /\ host' = host
            /\ activeTimers' = activeTimers
       /\ lastOp'.ms = Num(-5, 1) =>
            /\ lastOp'.ret = Len(host) + 1
            /\ Len(host') = Len(host) + 1
            /\ ~host'[lastOp'.ret].isTimeout
            /\ host'[lastOp'.ret].status = "active"
            /\ lastOp'.delay = Num(5, 1)
            /\ Len(activeTimers') = Len(activeTimers) + 1
            /\ Last(activeTimers').id = lastOp'.ret
    ]_vars

\* C9, witness: doEvery(-5, ...) returned the handle of a new active
\* repeating timer.
C9_Witness ==
  /\ lastOp.op = "doEvery"
  /\ lastOp.ms = Num(-5, 1)
  /\ lastOp.ret \in DOMAIN host
  /\ host[lastOp.ret].status = "active"
  /\ HasEntry(lastOp.ret)

\* C10: the failure value is not the handle of any timer the host has
\* handed out, no entry has it as its handle, a creation call that was not
\* rejected does not return it, and stop of the failure value returns false.
C10_FailureValueIsNoHandle ==
  /\ FailureHandle \notin DOMAIN host
  /\ ~HasEntry(FailureHandle)
  /\ (lastOp.op \in {"doEvery", "doAfter"} /\ ~lastOp.warned) =>
       lastOp.ret # FailureHandle
  /\ (/\ lastOp.op = "stop"
      /\ ~lastOp.id.isString
      /\ lastOp.id.num = FailureHandle) => ~lastOp.found

\* C10, witness: stop(-1) was called with timers registered and found
\* nothing.
C10_Witness ==
  /\ lastOp.op = "stop"
  /\ ~lastOp.id.isString
  /\ lastOp.id.num = -1
  /\ ~lastOp.found
  /\ Len(activeTimers) >= 2


\* The entry is in the registry after the step.
StaysRegistered(entry) ==
  \E k \in DOMAIN activeTimers' : activeTimers'[k] = entry

\* C14: a repeating timer created by a successful doEvery is registered
\* and scheduled when doEvery returns, and stays registered and scheduled
\* over every step, firings and throwing callbacks included, that is not a
\* stop that matches it.
C14_RepeatingEntryStaysUntilStopped ==
  /\ [](/\ (lastOp.op = "doEvery" /\ lastOp.ret # FailureHandle) =>
             /\ HasEntry(lastOp.ret)
             /\ ~Last(activeTimers).isTimeout
        /\ \A i \in DOMAIN activeTimers :
             ~activeTimers[i].isTimeout =>
               /\ ~host[activeTimers[i].id].isTimeout
               /\ host[activeTimers[i].id].status = "active")
  /\ [][\A i \in DOMAIN activeTimers :
          ~activeTimers[i].isTimeout =>
            \/ /\ StaysRegistered(activeTimers[i])
               /\ host'[activeTimers[i].id].status = "active"
            \/ /\ StopStep
               /\ lastOp'.found
               /\ Matches(activeTimers[i], lastOp'.id)]_vars

\* C14, witness: the callback of a repeating timer has thrown and the
\* timer is still registered, after a one-shot timer has come and gone.
C14_Witness ==
  /\ lastOp.op = "threw"
  /\ ~host[lastOp.ret].isTimeout
  /\ HasEntry(lastOp.ret)
  /\ \E h \in DOMAIN host : host[h].isTimeout /\ host[h].status = "done"

\* The name of an entry created without a name.
Unnamed == [defined |-> FALSE, str |-> ""]

\* C15: a timer created with the empty string as name is registered
\* without a name, as one created with the (ms, callback) form is; stop("")
\* finds nothing and returns false in every state; and no stop of a string
\* removes an entry without a name.
C15_EmptyNameIsNoName ==
  /\ [](/\ (/\ lastOp.op \in {"doEvery", "doAfter"}
            /\ lastOp.ret # FailureHandle
            /\ (lastOp.name.isFunction \/ lastOp.name.str = "")) =>
             /\ Last(activeTimers).id = lastOp.ret
             /\ Last(activeTimers).name = Unnamed
        /\ (lastOp.op = "stop" /\ lastOp.id.isString /\ lastOp.id.str = "") =>
             /\ ~lastOp.found
             /\ lastOp.warned)
  /\ [][(StopStep /\ lastOp'.id.isString) =>
          /\ lastOp'.id.str = "" => UNCHANGED <<activeTimers, host>>
          /\ \A i \in DOMAIN activeTimers :
               activeTimers[i].name = Unnamed =>
                 StaysRegistered(activeTimers[i])]_vars

\* C15, witness: stop("") has returned false while a timer created with
\* the empty name and a timer created without a name are registered.
C15_Witness ==
  /\ lastOp.op = "stop"
  /\ lastOp.id.isString
  /\ lastOp.id.str = ""
  /\ ~lastOp.found
  /\ Len(activeTimers) >= 2
  /\ \A i \in DOMAIN activeTimers : activeTimers[i].name = Unnamed

\* C19: no two entries of the registry have the same handle, whatever
\* the calls of doEvery, doAfter and stop and the firings made so far, on
\* a host that hands out a new handle for every timer.
C19_HandlesAreUnique ==
  \A i \in DOMAIN activeTimers, j \in DOMAIN activeTimers :
    activeTimers[i].id = activeTimers[j].id => i = j

\* C19, witness: a creation has returned the third handle, and the second
\* and third timers are registered after the first one is gone.
C19_Witness ==
  /\ lastOp.op \in {"doEvery", "doAfter"}
  /\ lastOp.ret = 3
  /\ Len(activeTimers) = 2
  /\ activeTimers[1].id = 2
  /\ activeTimers[2].id = 3
  /\ host[1].status # "active"

\* C20: every entry of the registry refers to a host timer that doEvery or
\* doAfter scheduled, of the entry's kind, that was not cancelled and, for
\* a one-shot, has not finished firing.
C20_EntriesReferToActiveHostTimers ==
  \A i \in DOMAIN activeTimers :
    /\ activeTimers[i].id \in DOMAIN host
    /\ host[activeTimers[i].id].isTimeout = activeTimers[i].isTimeout
    /\ host[activeTimers[i].id].status = "active"

\* C20, witness: between two operations, an entry is registered while a
\* one-shot timer has finished firing after a throw and another timer was
\* cancelled.
C20_Witness ==
  /\ running = 0
  /\ lastOp.op = "threw"
  /\ host[lastOp.ret].status = "done"
  /\ activeTimers # <<>>
  /\ \E h \in DOMAIN host : host[h].status = "cleared"

\* The positions of the entries with the given name, with the given
\* handle.
Named(str) ==
  {i \in DOMAIN activeTimers :
     activeTimers[i].name.defined /\ activeTimers[i].name.str = str}
Handled(num) == {i \in DOMAIN activeTimers : activeTimers[i].id = num}

\* The position of the entry that the step removed, 0 when it removed none.
Removed ==
  IF \E i \in DOMAIN activeTimers : activeTimers' = Without(activeTimers, i)
    THEN CHOOSE i \in DOMAIN activeTimers :
           activeTimers' = Without(activeTimers, i)
    ELSE 0

\* C29: stop looks up by the type of its argument.  A string is compared
\* with the names only: stop returns true exactly when an entry has that
\* name, it removes an entry with that name, and entries without a name
\* stay, so that stop of the decimal string of a registered handle returns
\* false and changes nothing unless an entry has that string as its name.
\* A number is compared with the handles only: stop returns true exactly
\* when an entry has that handle and removes that entry, whatever the names.
C29_StopLooksUpByArgumentType ==
  [][StopStep =>
       /\ lastOp'.found <=> Removed # 0
       /\ ~lastOp'.found => (activeTimers' = activeTimers /\ host' = host)
       /\ lastOp'.id.isString =>
            /\ lastOp'.found <=> Named(lastOp'.id.str) # {}
            /\ lastOp'.found => Removed \in Named(lastOp'.id.str)
            /\ \A i \in DOMAIN activeTimers :
                 ~activeTimers[i].name.defined =>
                   \E k \in DOMAIN activeTimers' :
                     activeTimers'[k] = activeTimers[i]
       /\ ~lastOp'.id.isString =>
            /\ lastOp'.found <=> Handled(lastOp'.id.num) # {}
            /\ lastOp'.found => Removed \in Handled(lastOp'.id.num)]_vars

\* C29, witness: stop("1") returned false while the timer with handle 1 is
\* registered, without a name, and active.
C29_Witness ==
  /\ lastOp.op = "stop"
  /\ lastOp.id.isString
  /\ lastOp.id.str = ToString(1)
  /\ ~lastOp.found
  /\ \E i \in DOMAIN activeTimers :
       activeTimers[i].id = 1 /\ ~activeTimers[i].name.defined
  /\ host[1].status = "active"

(***************************************************************************)
(* Properties of State with listeners that set the value, checked under    *)
(* ReentrantSpec.                                                          *)
(***************************************************************************)

\* C11: no listener is ever invoked with a previous value strictly equal
\* (===) to its new value, also when listeners set the value during a
\* dispatch.
C11_PreviousNeverEqualsNew ==
  \A i \in DOMAIN calls : ~StrictEquals(calls[i].previous, calls[i].value)

(***************************************************************************)
(* Properties of the timer registry over whole executions, checked under   *)
(* TimerFairSpec.                                                          *)
(***************************************************************************)

\* The firing of the one-shot entry that is executing ends with its host
\* timer finished; a host timer that is finished or cancelled does not fire
\* and stays as it is.
FiresAtMostOnce ==
  /\ \A i \in DOMAIN activeTimers :
       (/\ activeTimers[i].isTimeout
        /\ running = activeTimers[i].id
        /\ running' # running) => host'[running].status = "done"
  /\ \A h \in DOMAIN host :
       host[h].status # "active" =>
         /\ running' = h => running = h
         /\ host'[h] = host[h]

\* C13: the callback of a one-shot timer created by a successful doAfter
\* is invoked at most once; and on a host that fires every timeout that
\* stays scheduled, a one-shot timer that is never stopped is eventually
\* invoked and its entry is eventually absent from the registry.
C13_OneShotFiresExactlyOnce ==
  /\ [][FiresAtMostOnce]_vars
  /\ \A h \in 1 .. MaxTimers :
       (lastOp.op = "doAfter" /\ lastOp.ret = h) ~>
         (/\ h \in DOMAIN host
          /\ host[h].status \in {"done", "cleared"}
          /\ ~HasEntry(h))

\* C13, witness: the callback of a one-shot timer has returned, the timer
\* is finished and unregistered while another timer is still registered.
C13_Witness ==
  /\ lastOp.op = "returned"
  /\ host[lastOp.ret].isTimeout
  /\ host[lastOp.ret].status = "done"
  /\ ~HasEntry(lastOp.ret)
  /\ activeTimers # <<>>

(***************************************************************************)
(* Properties of both modules, checked under EitherSpec.                   *)
(***************************************************************************)

\* The listener invocations of the last set that ended with a throw.
Thrown == {i \in DOMAIN calls : calls[i].outcome = "threw"}

\* C16: a doEvery or doAfter reports on the console exactly when it is
\* rejected for its interval, a stop exactly when it finds no entry; a set
\* has made at least one report per listener exception caught so far, and
\* none when it was a no-op or when no listener has thrown; and none of
\* them throws to its caller.
C16_FailuresAreReportedNotThrown ==
  /\ lastOp.op \in {"doEvery", "doAfter"} =>
       (lastOp.warned <=> lastOp.ret = FailureHandle)
  /\ lastOp.op = "stop" => (lastOp.warned <=> ~lastOp.found)
  /\ lastOp.op \in {"fire", "returned", "threw"} => ~lastOp.warned
  /\ reports >= Cardinality(Thrown)
  /\ Thrown = {} => reports = 0
  /\ lastCall.completion # "throw"
  /\ (lastCall.op = "set" /\ StrictEquals(lastCall.before, lastCall.arg)) =>
       (reports = 0 /\ lastCall.completion = "normal")

\* C16, witness: a set has returned after two listeners threw and one
\* returned.
C16_Witness ==
  /\ lastCall.op = "set"
  /\ stack = <<>>
  /\ Cardinality(Thrown) = 2
  /\ Len(calls) = 3
  /\ reports > 0

(***************************************************************************)
(* Properties of addElement, checked under DomSpec.                        *)
(***************************************************************************)

\* The index clamped to 0 .. count.
ClampedTo(i, count) == IF i < 0 THEN 0 ELSE IF i > count THEN count ELSE i

\* C17: addElement with a parent adds exactly one child and keeps the
\* children that were there in their order; called with an integer index, it puts the new
\* element at the 0-based position index clamped to 0 .. childCount (first
\* child for 0, last child for childCount); called without index, it puts
\* it at the end.
C17_PlacedAtClampedIndex ==
  (lastAdd.op = "addElement" /\ lastAdd.present) =>
    LET count == Len(lastAdd.before)
        number == lastAdd.index.number
    IN  /\ Len(childNodes) = count + 1
        /\ \E at \in DOMAIN childNodes :
             /\ childNodes[at] = lastAdd.created
             /\ Without(childNodes, at) = lastAdd.before
        /\ lastAdd.index.omitted => childNodes[count + 1] = lastAdd.created
        /\ (~lastAdd.index.omitted /\ ~number.nan /\ number.den = 1) =>
             childNodes[ClampedTo(number.num, count) + 1] = lastAdd.created

(***************************************************************************)
(* Properties of playSound, checked under MediaSpec.                       *)
(***************************************************************************)

\* The step is a call of playSound.
PlayStep == lastPlay'.op = "playSound"

\* The call of the step found these elements for its file, left those, and
\* returned the element at position returned.
PlaysWhatIsNeeded(before, after, multiple, loop, allowed, returned) ==
  LET created == Len(after) = Len(before) + 1
      wasPaused == created \/ before[returned].paused
      needed == IF multiple
                  THEN \A i \in DOMAIN before : ~before[i].paused
                  ELSE before = <<>>
  IN  /\ created \/ Len(after) = Len(before)
      /\ created <=> needed
      /\ created => returned = Len(after)
      /\ (~created /\ ~multiple) => returned = 1
      /\ (~created /\ multiple) =>
           /\ before[returned].paused
           /\ \A j \in 1 .. returned - 1 : ~before[j].paused
      /\ after[returned] =
           [paused |-> ~allowed /\ wasPaused, currentTime |-> 0,
            loop |-> loop]
      /\ \A i \in DOMAIN before : i # returned => after[i] = before[i]

\* C18: playSound creates an audio element for the file only when there is
\* none (multiple = false) or when all of them are playing (multiple =
\* true); otherwise it takes the first element, respectively the first
\* paused one; the element it returns is at time 0, with loop as given,
\* and playing if the host allows it; the other elements, and the other
\* files, are left as they are;
\* and no step makes the list of a file shorter.
C18_NewAudioOnlyWhenNeeded ==
  /\ [][PlayStep =>
          /\ PlaysWhatIsNeeded(audioSources[lastPlay'.file],
                               audioSources'[lastPlay'.file],
                               lastPlay'.multiple, lastPlay'.loop,
                               lastPlay'.allowed, lastPlay'.returned)
          /\ \A file \in Files \ {lastPlay'.file} :
               audioSources'[file] = audioSources[file]]_vars
  /\ [][\A file \in Files :
          Len(audioSources'[file]) >= Len(audioSources[file])]_vars

\* C18, witness: with three elements for a file, the first one playing
\* and the two others paused, playSound(file, true, true) has returned the
\* second one.
C18_Witness ==
  /\ lastPlay.op = "playSound"
  /\ lastPlay.allowed
  /\ lastPlay.multiple
  /\ lastPlay.loop
  /\ lastPlay.returned = 2
  /\ Len(audioSources[lastPlay.file]) = 3
  /\ ~audioSources[lastPlay.file][1].paused
  /\ audioSources[lastPlay.file][1].currentTime = 1
  /\ audioSources[lastPlay.file][3].paused

(***************************************************************************)
(* Properties of the timer registry with callbacks that call the module,   *)
(* checked under TimerReentrantSpec.                                       *)
(***************************************************************************)

\* The step ends the callback that is executing.
EndStep == running # 0 /\ running' = 0

\* The step is a stop that has found an entry.
StopFoundStep ==
  /\ lastOp'.op = "stop"
  /\ lastOp'.found
  /\ Len(activeTimers') = Len(activeTimers) - 1

\* C21: the entry of a timer leaves the registry at most once: a step
\* removes at most one entry; the entry with a handle leaves by a stop that
\* returns true or by the cleanup of the one-shot with that handle; once
\* gone there is no entry with that handle again; and the cleanup of a
\* one-shot whose entry is already gone removes nothing.
C21_EntryRemovedAtMostOnce ==
  [][/\ Len(activeTimers') >= Len(activeTimers) - 1
     /\ \A h \in DOMAIN host :
          /\ ~HasEntry(h) => ~HasEntry(h)'
          /\ (HasEntry(h) /\ ~HasEntry(h)') =>
               \/ StopFoundStep
               \/ EndStep /\ running = h /\ host[h].isTimeout
     /\ (EndStep /\ ~HasEntry(running)) => activeTimers' = activeTimers]_vars

\* C21, witness: the callback of a one-shot timer that was stopped while it
\* was executing has ended, with other timers registered.
C21_Witness ==
  /\ lastOp.op \in {"returned", "threw"}
  /\ host[lastOp.ret].isTimeout
  /\ host[lastOp.ret].status = "cleared"
  /\ Len(activeTimers) >= 2

\* The callback of a one-shot timer ends: the finally block runs.
OneShotEndStep == EndStep /\ host[running].isTimeout

\* The entries of the array whose handles are in the set, in order.
Keeping(array, handles) ==
  SelectSeq(array, LAMBDA entry : entry.id \in handles)

\* The handles of the entries of the array.
Handles(array) == {array[i].id : i \in DOMAIN array}

\* C22: callbacks may call doEvery, doAfter and stop.  When the callback of
\* a one-shot timer ends, the finally block removes the entry of that timer
\* and no other; the entries the callback found, except the ones it stopped
\* and its own, are still registered in their order; every timer created in
\* the callback and not stopped in it has its entry; every timer stopped in
\* the callback has none.
C22_ReentrantCallsKeepRegistry ==
  [][OneShotEndStep =>
       /\ activeTimers' =
            Keeping(activeTimers, Handles(activeTimers) \ {running})
       /\ Keeping(activeTimers', Handles(firing.before))
            = Keeping(firing.before,
                      Handles(firing.before) \ (firing.stopped \cup {running}))
       /\ \A h \in firing.created \ firing.stopped : HasEntry(h)'
       /\ \A h \in firing.stopped : ~HasEntry(h)'
       /\ Handles(activeTimers') \subseteq
            (Handles(firing.before) \cup firing.created)]_vars

\* C22, witness: the callback of a one-shot timer has ended after it created
\* a timer and stopped another one, which was registered before its own;
\* the created timer is registered.
C22_Witness ==
  /\ running = 0
  /\ lastOp.op \in {"returned", "threw"}
  /\ host[lastOp.ret].isTimeout
  /\ host[lastOp.ret].status = "done"
  /\ \E h \in firing.created \ firing.stopped : HasEntry(h)
  /\ \E h \in firing.stopped : h < lastOp.ret

\* The entry of the timer whose callback is executing.
OwnEntry == CHOOSE entry \in Elements(activeTimers) : entry.id = running

\* The callback of a one-shot timer, whose entry is registered, calls stop
\* with the handle of the timer or with the name of the entry.
SelfStopStep ==
  /\ running # 0
  /\ host[running].isTimeout
  /\ HasEntry(running)
  /\ StopStep
  /\ Matches(OwnEntry, lastOp'.id)

\* No entry registered before the one of the executing callback has the
\* name that stop was called with.
NoEarlierMatch ==
  \A i \in DOMAIN activeTimers :
    Matches(activeTimers[i], lastOp'.id) => activeTimers[i].id >= running

\* C27, as stated: a stop that the callback of a one-shot timer makes with
\* its own handle or its own name returns true and removes the entry of
\* that timer; the cleanup after a callback that stopped its own timer
\* removes no entry.
C27_SelfStopRemovesOwnEntry ==
  [][/\ SelfStopStep =>
          /\ lastOp'.found
          /\ ~HasEntry(running)'
          /\ Len(activeTimers') = Len(activeTimers) - 1
     /\ (OneShotEndStep /\ running \in firing.stopped) =>
          activeTimers' = activeTimers]_vars

\* C27: a stop that the callback of a one-shot timer makes with its own
\* handle, or with its own name when no entry registered earlier has that
\* name, returns true and removes the entry of that timer and no other;
\* the cleanup after a callback that stopped its own timer removes no
\* entry; and when the callback did nothing else to the registry, the
\* registry after the firing is the one found by the firing without that
\* entry.
C27_SelfStopLeavesNothingToCleanUp ==
  [][/\ (SelfStopStep /\ NoEarlierMatch) =>
          /\ lastOp'.found
          /\ ~HasEntry(running)'
          /\ activeTimers' =
               Keeping(activeTimers, Handles(activeTimers) \ {running})
     /\ (OneShotEndStep /\ running \in firing.stopped) =>
          /\ activeTimers' = activeTimers
          /\ (firing.stopped = {running} /\ firing.created = {}) =>
               activeTimers' = Keeping(firing.before,
                                       Handles(firing.before) \ {running})
    ]_vars

\* C27, witness: the callback of a one-shot timer has ended after it
\* stopped its own timer and did nothing else; other timers are registered.
C27_Witness ==
  /\ running = 0
  /\ lastOp.op \in {"returned", "threw"}
  /\ host[lastOp.ret].isTimeout
  /\ host[lastOp.ret].status = "cleared"
  /\ firing.stopped = {lastOp.ret}
  /\ firing.created = {}
  /\ Len(activeTimers) = 2

\* The entries of the registry with the given handle.
EntriesOf(handle) ==
  {i \in DOMAIN activeTimers : activeTimers[i].id = handle}

\* C28: no host timer is orphaned.  Every timer of the host that doEvery or
\* doAfter scheduled and that is active (not cancelled and, one-shot, not
\* finished) has exactly one entry with its handle, of the kind it was
\* created with, and stop(handle) finds that entry; between operations and
\* also while a callback executes.
C28_ActiveHostTimersHaveOneEntry ==
  \A handle \in DOMAIN host :
    host[handle].status = "active" =>
      /\ Cardinality(EntriesOf(handle)) = 1
      /\ \A i \in EntriesOf(handle) :
           /\ activeTimers[i].isTimeout = host[handle].isTimeout
           /\ Lookup([isString |-> FALSE, num |-> handle, str |-> ""]) = i

\* C28, witness: between two operations, after a callback stopped a timer,
\* a repeating and a one-shot timer are active and registered.
C28_Witness ==
  /\ running = 0
  /\ firing.stopped # {}
  /\ \E h1, h2 \in DOMAIN host :
       /\ host[h1].status = "active" /\ host[h1].isTimeout
       /\ host[h2].status = "active" /\ ~host[h2].isTimeout
       /\ HasEntry(h1)
       /\ HasEntry(h2)

(***************************************************************************)
(* Properties of State with listeners that call onChange and set the       *)
(* value while they execute, checked under RegisteringSpec.                *)
(***************************************************************************)

\* The invocations made so far by the activation that is the depth-th of
\* the stack, in the order they were made.
Invocations(depth) ==
  SelectSeq(SubSeq(calls, stack[depth].first, Len(calls)),
            LAMBDA call : call.depth = depth)

\* The innermost activation of the setter returns.
ReturnStep == Len(stack') < Len(stack)

\* C23: listeners may call onChange during a dispatch.  The invocations
\* that an activation of the setter makes go to the registrations in their
\* order, one invocation for each position of the list; and when the
\* activation returns, every registration made before it began has been
\* invoked, once, and has finished.
C23_EarlierListenersOnceInOrder ==
  [][/\ \A depth \in DOMAIN stack :
          /\ Len(Invocations(depth)) <= Len(callbacks)
          /\ \A i \in DOMAIN Invocations(depth) :
               Invocations(depth)[i].listener = callbacks[i]
     /\ ReturnStep =>
          /\ Len(Invocations(Len(stack))) >= Top.found
          /\ \A i \in 1 .. Top.found :
               /\ Invocations(Len(stack))[i].listener = callbacks[i]
               /\ Invocations(Len(stack))[i].outcome # "running"]_vars

\* C23, witness: a set that found two different listeners has returned;
\* a third one was registered while the first was executing, and the two
\* were invoked first, in their order.
C23_Witness ==
  /\ ChangingSet
  /\ stack = <<>>
  /\ lastCall.nested = 0
  /\ Len(callbacks) = 3
  /\ Len(calls) = 3
  /\ calls[1].listener # calls[2].listener
  /\ calls[1].length = 2
  /\ calls[2].length = 3

\* The step is the invocation of a listener.
InvokeStep == Len(calls') = Len(calls) + 1

\* C25, as stated: the value that a listener receives is strictly equal
\* (===) to the value that the getter returns, the held value, at the moment
\* of the invocation.
C25_ReceivedStrictlyEqualsHeld ==
  [][InvokeStep => StrictEquals(Last(calls').value, value')]_vars

\* C25: the value that a listener receives is the value that the getter
\* returns at the moment of the invocation, also after a listener has set
\* the value during the dispatch; the two are strictly equal unless the
\* value is NaN.
C25_ReceivedIsHeld ==
  [][InvokeStep =>
       /\ Last(calls').value = value'
       /\ value' # NaNValue => StrictEquals(Last(calls').value, value')]_vars

\* C25, witness: in the dispatch of a top-level set, a listener was invoked
\* after another listener had set another value, and received that value.
C25_Witness ==
  \E i \in DOMAIN calls :
    /\ calls[i].depth = 1
    /\ calls[i].value # lastCall.arg
    /\ ~StrictEquals(calls[i].value, lastCall.arg)

\* C26: a listener registered by a listener during a dispatch is invoked
\* in that dispatch, after the listeners registered before it, with the
\* arguments that they received: when an activation of the setter returns,
\* it has invoked every registration, the ones made since it began
\* included, once and in order, and the latter with the value and the
\* previous value of its first invocation.
C26_RegisteredDuringDispatchIsInvoked ==
  [][ReturnStep =>
       /\ Len(Invocations(Len(stack))) = Len(callbacks)
       /\ \A i \in DOMAIN Invocations(Len(stack)) :
            /\ Invocations(Len(stack))[i].listener = callbacks[i]
            /\ i > Top.found =>
                 /\ Invocations(Len(stack))[i].value
                      = Invocations(Len(stack))[1].value
                 /\ Invocations(Len(stack))[i].previous
                      = Invocations(Len(stack))[1].previous]_vars

\* C24: every invocation made by the dispatch of set(next) receives
\* (next, value held before that call), also when a listener sets the value
\* during the dispatch: the invocations of the top-level set receive its
\* argument and the value held before it, the invocations of a set made by
\* a listener receive that set's argument and the value it found.  Checked
\* under ReentrantSpec.
C24_ListenersReceiveArgument ==
  /\ \A i \in DOMAIN calls :
       calls[i].depth = 1 =>
         /\ calls[i].value = lastCall.arg
         /\ calls[i].previous = lastCall.before
  /\ \A depth \in DOMAIN stack :
       \A i \in DOMAIN Invocations(depth) :
         /\ Invocations(depth)[i].value = stack[depth].state
         /\ Invocations(depth)[i].previous = stack[depth].previous

(***************************************************************************)
(* Properties of two States used from top-level code, checked under        *)
(* CountingSpec.                                                           *)
(***************************************************************************)

\* The loop of the top-level set in progress has invoked the listener at
\* the position.
Reached(i) ==
  /\ stack # <<>>
  /\ \/ i < Top.index
     \/ i = Top.index /\ Top.busy

\* C30: without re-entrant calls, a listener has been invoked as many
\* times as sets of a value different (!==) from the held one were made on
\* its own State after its registration: the set in progress counts once
\* its loop has reached the listener.  So onChange invokes nothing, a read
\* and a set of an equal value invoke nothing, and a set on another State
\* invokes only that State's listeners.
C30_InvokedOncePerChangingSet ==
  /\ Len(tally.invoked) = Len(callbacks)
  /\ Len(tally.due) = Len(callbacks)
  /\ \A i \in DOMAIN callbacks :
       tally.invoked[i] =
         IF stack = <<>> \/ Reached(i) THEN tally.due[i] ELSE tally.due[i] - 1
  /\ Len(other.counts.invoked) = Len(other.callbacks)
  /\ \A i \in DOMAIN other.callbacks :
       other.counts.invoked[i] = other.counts.due[i]

\* C30, witness: no call is in progress; one listener was invoked twice, a
\* listener registered after the first changing set once, a listener
\* registered last never; and the other State, which has a listener, was
\* set more often than that.
C30_Witness ==
  /\ stack = <<>>
  /\ Len(callbacks) = 3
  /\ tally.invoked = <<2, 1, 0>>
  /\ other.callbacks # <<>>
  /\ other.counts.sets = 3

====
